---- MODULE Spec2Model ----
(***************************************************************************)
(* Model of src/assets/html5-qrcode.jsx: the Html5QrcodePlugin React       *)
(* component, which owns one Html5QrcodeScanner per mount.                 *)
(*                                                                         *)
(* JavaScript values are written as the text of their literal, so that the *)
(* boolean true ("true") and the string "true" ("'true'") are different    *)
(* values.  A props object is a function from prop names to such values.   *)
(* The host (React) is modelled by what it does with a function component  *)
(* that has one useEffect with an empty dependency list: it calls the      *)
(* component function on mount and on every re-render, commits the         *)
(* returned element, flushes the effect once after the first commit, and   *)
(* calls the effect's cleanup, when one was returned, on unmount.          *)
(* The scanner library is an opaque collaborator: its constructor and its  *)
(* render method return or throw, its clear() promise resolves or rejects. *)
(***************************************************************************)
EXTENDS Integers, Sequences, FiniteSets, TLC

VARIABLES phase, mounts, props, closure, dom, scanners, cleanup, log, console, uncaught

vars == <<phase, mounts, props, closure, dom, scanners, cleanup, log, console, uncaught>>

\* Number of mount/unmount cycles the host performs.
MaxMounts == 2

--------------------------------------------------------------------------
\* JavaScript values

JsUndefined == "undefined"

JsTrue == "true"

\* line 4
qrcodeRegionId == "html5qr-code-full-region"

\* line 26
RequiredMessage == "qrCodeSuccessCallback is required callback."

\* line 38
ClearFailedMessage == "Failed to clear html5QrcodeScanner. "

\* A validation by type, typeof qrCodeSuccessCallback !== "function".
IsNotAFunction(v) == v \notin {"cb1", "cb2", "ecb"}

\* A validation that only rejects null.
IsNullOnly(v) == v = "null"

\* The values for which the JavaScript operator ! yields true (line 25).
IsFalsy(v) == v \in {"undefined", "null", "false", "0", "''", "NaN"}

\* A coercion by truthiness, Boolean(verbose).
IsTruthy(v) == v \notin {"undefined", "null", "false", "0", "''", "NaN"}

\* verbose === true (line 31)
StrictlyTrue(v) == v = JsTrue

\* The props named in the destructuring pattern (lines 8-14).
NamedProps == {"fps", "qrbox", "aspectRatio", "disableFlip", "verbose",
               "qrCodeSuccessCallback", "qrCodeErrorCallback"}

\* The fields of the config object literal (lines 19-22).
ConfigFields == {"fps", "qrbox", "aspectRatio", "disableFlip"}

\* A destructured prop with its default, name = undefined (lines 8-14).
Prop(p, k) == IF k \in DOMAIN p THEN p[k] ELSE JsUndefined

\* A destructuring pattern that does not name verbose.
RestWithVerbose(p) == [k \in (DOMAIN p) \ (NamedProps \ {"verbose"}) |-> p[k]]

\* ...rest (line 15): every own property the pattern does not name.
Rest(p) == [k \in (DOMAIN p) \ NamedProps |-> p[k]]

\* A config that leaves out the fields the caller did not pass.
BuildConfigOmitsUnset(p) == [k \in ConfigFields \cap DOMAIN p |-> p[k]]

\* const config = { fps, qrbox, aspectRatio, disableFlip } (lines 18-23)
BuildConfig(p) == [k \in ConfigFields |-> Prop(p, k)]

\* <div id={qrcodeRegionId} {...rest} /> (line 43): in JSX a later
\* attribute of the same name overrides an earlier one.
Container(p) == Rest(p) @@ ("id" :> qrcodeRegionId)

--------------------------------------------------------------------------
\* Inputs: the props the host may pass

NoProps == [k \in {} |-> JsUndefined]

BaseProps == "qrCodeSuccessCallback" :> "cb1"

With(p, k, v) == (k :> v) @@ p

ConfigProps ==
    { With(BaseProps, "fps", "10"), With(BaseProps, "qrbox", "250"),
      With(BaseProps, "aspectRatio", "1.5"), With(BaseProps, "disableFlip", "false"),
      With(With(BaseProps, "fps", "10"), "qrbox", "250") }

VerboseProps ==
    { With(BaseProps, "verbose", v) : v \in {"true", "'true'", "1", "false"} }

CallbackProps ==
    { With(BaseProps, "qrCodeSuccessCallback", v) :
          v \in {"undefined", "null", "false", "0", "''", "cb2", "1"} }
    \cup { NoProps, BaseProps, With(BaseProps, "qrCodeErrorCallback", "ecb") }

RestProps ==
    { With(BaseProps, "className", "c"), With(BaseProps, "id", "custom"),
      With(NoProps, "id", "custom"),
      With(With(BaseProps, "className", "c"), "verbose", "true") }

PropsSet == ConfigProps \cup VerboseProps \cup CallbackProps \cup RestProps

--------------------------------------------------------------------------
\* State after the page is loaded and before the component is mounted.

Event(e, m) == [ev |-> e, m |-> m]

NoElement == [k \in {} |-> JsUndefined]

Init ==
    /\ phase = "unmounted"
    /\ mounts = 0
    /\ props = NoProps
    /\ closure = NoProps
    /\ dom = NoElement
    /\ scanners = <<>>
    /\ cleanup = 0
    /\ log = <<>>
    /\ console = <<>>
    /\ uncaught = <<>>


\* The host mounts the component: it calls the component function with the
\* props (lines 6-16), commits the returned element (line 43) and schedules
\* the effect, whose callback closes over the props of this first call.
Mount(p) ==
    /\ phase = "unmounted"
    /\ mounts < MaxMounts
    /\ mounts' = mounts + 1
    /\ props' = p
    /\ closure' = p
    /\ dom' = Container(p)
    /\ cleanup' = 0
    /\ phase' = "rendered"
    /\ UNCHANGED <<scanners, log, console, uncaught>>

\* new Html5QrcodeScanner(qrcodeRegionId, config, verbose === true) (lines 28-32)
NewScanner(m, p) ==
    [ m |-> m, elementId |-> qrcodeRegionId, config |-> BuildConfig(p),
      verbose |-> StrictlyTrue(Prop(p, "verbose")),
      rendered |-> FALSE, success |-> JsUndefined, error |-> JsUndefined,
      clear |-> "idle" ]

\* html5QrcodeScanner.render(qrCodeSuccessCallback, qrCodeErrorCallback) (line 33)
Render(s, p) ==
    [s EXCEPT !.rendered = TRUE,
              !.success = Prop(p, "qrCodeSuccessCallback"),
              !.error = Prop(p, "qrCodeErrorCallback")]

\* The effect callback (lines 17-41), flushed once after the first commit.
\* ctorThrows and renderThrows are the outcomes of the two library calls.
Effect(ctorThrows, renderThrows) ==
    /\ phase = "rendered"
    /\ LET m == mounts
           p == closure
           h == Len(scanners) + 1
       IN  IF IsFalsy(Prop(p, "qrCodeSuccessCallback"))
           THEN /\ phase' = "failed"
                /\ uncaught' = Append(uncaught, [m |-> m, from |-> "effect", error |-> RequiredMessage])
                /\ log' = Append(log, Event("effect", m))
                /\ UNCHANGED <<scanners, cleanup>>
           ELSE IF ctorThrows
           THEN /\ phase' = "failed"
                /\ uncaught' = Append(uncaught, [m |-> m, from |-> "effect", error |-> "constructor"])
                /\ log' = Append(log, Event("effect", m))
                /\ UNCHANGED <<scanners, cleanup>>
           ELSE IF renderThrows
           THEN /\ phase' = "failed"
                /\ scanners' = Append(scanners, NewScanner(m, p))
                /\ uncaught' = Append(uncaught, [m |-> m, from |-> "effect", error |-> "render"])
                /\ log' = log \o <<Event("effect", m), Event("new", m)>>
                /\ UNCHANGED cleanup
           ELSE /\ phase' = "active"
                /\ scanners' = Append(scanners, Render(NewScanner(m, p), p))
                /\ cleanup' = h
                /\ log' = log \o <<Event("effect", m), Event("new", m), Event("render", m)>>
                /\ UNCHANGED uncaught
    /\ UNCHANGED <<mounts, props, closure, dom, console>>

\* A re-render whose effect depends on the props: the scanner is rebuilt
\* from the new props.
RerenderReactive(p) ==
    /\ phase = "active"
    /\ p # props
    /\ props' = p
    /\ dom' = Container(p)
    /\ closure' = p
    /\ scanners' = [scanners EXCEPT ![cleanup] = Render(NewScanner(mounts, p), p)]
    /\ log' = log \o <<Event("effect", mounts), Event("new", mounts), Event("render", mounts)>>
    /\ UNCHANGED <<phase, mounts, cleanup, console, uncaught>>

\* The host re-renders the mounted component with new props: the component
\* function runs again and the element is updated; the effect, whose
\* dependency list is empty (line 41), is not run again.
Rerender(p) ==
    /\ phase = "active"
    /\ p # props
    /\ props' = p
    /\ dom' = Container(p)
    /\ UNCHANGED <<phase, mounts, closure, scanners, cleanup, log, console, uncaught>>

\* An unmount whose cleanup is registered whatever the effect did and
\* clears the scanner kept in a variable outside the effect: the latest one
\* constructed, or none, in which case the call throws.
UnmountClearsLatest ==
    /\ phase \in {"active", "failed"}
    /\ phase' = "unmounted"
    /\ dom' = NoElement
    /\ cleanup' = 0
    /\ IF scanners # <<>>
       THEN /\ scanners' = [scanners EXCEPT ![Len(scanners)].clear = "pending"]
            /\ log' = Append(log, Event("clear", mounts))
            /\ UNCHANGED uncaught
       ELSE /\ uncaught' = Append(uncaught, [m |-> mounts, from |-> "cleanup", error |-> "TypeError"])
            /\ UNCHANGED <<scanners, log>>
    /\ props' = NoProps
    /\ UNCHANGED <<mounts, closure, console>>

\* An unmount that waits for clear() to be fulfilled before it returns.
UnmountAwaits ==
    /\ phase \in {"active", "failed"}
    /\ phase' = "unmounted"
    /\ dom' = NoElement
    /\ cleanup' = 0
    /\ IF cleanup # 0
       THEN /\ scanners' = [scanners EXCEPT ![cleanup].clear = "resolved"]
            /\ log' = Append(log, Event("clear", scanners[cleanup].m))
       ELSE UNCHANGED <<scanners, log>>
    /\ props' = NoProps
    /\ UNCHANGED <<mounts, closure, console, uncaught>>

\* The host unmounts the component (on request, or because the effect
\* threw): it calls the cleanup the effect returned, if any (lines 36-40),
\* which requests clear() and attaches the catch handler, and removes the
\* element; the instance no longer has props.
Unmount ==
    /\ phase \in {"active", "failed"}
    /\ phase' = "unmounted"
    /\ dom' = NoElement
    /\ cleanup' = 0
    /\ IF cleanup # 0
       THEN /\ scanners' = [scanners EXCEPT ![cleanup].clear = "pending"]
            /\ log' = Append(log, Event("clear", scanners[cleanup].m))
       ELSE UNCHANGED <<scanners, log>>
    /\ props' = NoProps
    /\ UNCHANGED <<mounts, closure, console, uncaught>>

\* A catch handler that logs and requests clear() again.
ClearSettlesRetries(h, rejects) ==
    /\ h \in 1..Len(scanners)
    /\ scanners[h].clear = "pending"
    /\ IF rejects
       THEN /\ console' = Append(console, [m |-> scanners[h].m, level |-> "error", text |-> ClearFailedMessage])
            /\ log' = Append(log, Event("clear", scanners[h].m))
            /\ UNCHANGED scanners
       ELSE /\ scanners' = [scanners EXCEPT ![h].clear = "resolved"]
            /\ UNCHANGED <<console, log>>
    /\ UNCHANGED <<phase, mounts, props, closure, dom, cleanup, uncaught>>

\* clear() without a catch handler: a rejection is unhandled and unlogged.
ClearSettlesNoCatch(h, rejects) ==
    /\ h \in 1..Len(scanners)
    /\ scanners[h].clear = "pending"
    /\ IF rejects
       THEN /\ scanners' = [scanners EXCEPT ![h].clear = "rejected"]
            /\ uncaught' = Append(uncaught, [m |-> scanners[h].m, from |-> "cleanup", error |-> "unhandledrejection"])
       ELSE /\ scanners' = [scanners EXCEPT ![h].clear = "resolved"]
            /\ UNCHANGED uncaught
    /\ UNCHANGED <<phase, mounts, props, closure, dom, cleanup, log, console>>

\* The promise of clear() settles.  On rejection the catch handler
\* (lines 37-39) logs; on fulfilment nothing is attached.
ClearSettles(h, rejects) ==
    /\ h \in 1..Len(scanners)
    /\ scanners[h].clear = "pending"
    /\ IF rejects
       THEN /\ scanners' = [scanners EXCEPT ![h].clear = "rejected"]
            /\ console' = Append(console, [m |-> scanners[h].m, level |-> "error", text |-> ClearFailedMessage])
       ELSE /\ scanners' = [scanners EXCEPT ![h].clear = "resolved"]
            /\ UNCHANGED console
    /\ UNCHANGED <<phase, mounts, props, closure, dom, cleanup, log, uncaught>>

Next ==
    \/ \E p \in PropsSet : Mount(p)
    \/ \E c \in BOOLEAN, r \in BOOLEAN : Effect(c, r)
    \/ \E p \in PropsSet : Rerender(p)
    \/ Unmount
    \/ \E h \in 1..MaxMounts, r \in BOOLEAN : ClearSettles(h, r)

Spec == Init /\ [][Next]_vars

TypeOK ==
    /\ phase \in {"unmounted", "rendered", "active", "failed"}
    /\ mounts \in 0..MaxMounts
    /\ cleanup \in 0..Len(scanners)

--------------------------------------------------------------------------
\* Properties

\* The positions of an event in the log.
At(e, m) == {i \in 1..Len(log) : log[i] = Event(e, m)}

Count(e, m) == Cardinality(At(e, m))

\* The scanners constructed during mount m.
ScannersOf(m) == {h \in 1..Len(scanners) : scanners[h].m = m}

\* Mount m is over: the component is unmounted or mounted again since.
Ended(m) == m < mounts \/ (m = mounts /\ phase = "unmounted")

SuccessCallback == Prop(closure, "qrCodeSuccessCallback")

\* The values of the inputs that are functions.
IsFunction(v) == v \in {"cb1", "cb2", "ecb"}

\* C1: a mount with a valid success callback, once over, has constructed
\* exactly one scanner and requested exactly one clear(), the construction
\* first; and no mount ever constructs a second scanner.
C1_OneCreateOneRelease ==
    /\ \A m \in 1..mounts : Count("new", m) <= 1 /\ Count("clear", m) <= 1
    /\ (mounts >= 1 /\ phase = "unmounted" /\ IsFunction(SuccessCallback))
         => /\ Count("new", mounts) = 1
            /\ Count("clear", mounts) = 1
            /\ \A i \in At("new", mounts), j \in At("clear", mounts) : i < j

\* C2: when qrCodeSuccessCallback is not supplied, the effect has thrown the
\* configuration error and the mount has no constructor call, no scanner
\* and no started scanner.
C2_MissingCallbackFailsFirst ==
    (mounts >= 1 /\ phase # "rendered" /\ SuccessCallback = JsUndefined)
      => /\ phase # "active"
         /\ Count("new", mounts) = 0
         /\ Count("render", mounts) = 0
         /\ ScannersOf(mounts) = {}
         /\ \E i \in 1..Len(uncaught) :
                uncaught[i] = [m |-> mounts, from |-> "effect", error |-> RequiredMessage]

C2_Witness ==
    /\ phase = "failed"
    /\ "qrCodeSuccessCallback" \notin DOMAIN closure
    /\ Len(uncaught) = 1
    /\ scanners = <<>>

\* C3: while the component is mounted, the id of the container element is
\* the fixed region identifier, whatever the passthrough props.
C3_ContainerHasRegionId ==
    phase # "unmounted" => ("id" \in DOMAIN dom /\ dom["id"] = qrcodeRegionId)

\* C4: when clear() was rejected, the failure was logged with
\* console.error, nothing was thrown out of the cleanup or left unhandled,
\* and the mount is over whatever the state of its clear().
C4_ReleaseFailureIsLogged ==
    /\ \A h \in 1..Len(scanners) :
         /\ scanners[h].clear # "idle" => Ended(scanners[h].m)
         /\ scanners[h].clear = "rejected" =>
              \E i \in 1..Len(console) :
                  console[i] = [m |-> scanners[h].m, level |-> "error", text |-> ClearFailedMessage]
    /\ \A i \in 1..Len(uncaught) : uncaught[i].from = "effect"

C4_Witness ==
    /\ phase = "unmounted"
    /\ \E h \in 1..Len(scanners) : scanners[h].clear = "rejected" /\ scanners[h].m = mounts
    /\ uncaught = <<>>

\* C5: the effect runs exactly once per mount, re-renders included, and the
\* scanner of a mounted component holds the configuration and the callbacks
\* of the props of the first render, also when the props have changed.
C5_ActivationOncePerMount ==
    /\ \A m \in 1..mounts :
         Count("effect", m) = (IF m = mounts /\ phase = "rendered" THEN 0 ELSE 1)
    /\ phase = "active" =>
         /\ ScannersOf(mounts) = {cleanup}
         /\ scanners[cleanup].config = [k \in ConfigFields |-> Prop(closure, k)]
         /\ scanners[cleanup].success = Prop(closure, "qrCodeSuccessCallback")
         /\ scanners[cleanup].error = Prop(closure, "qrCodeErrorCallback")

C5_Witness ==
    /\ phase = "active"
    /\ Prop(props, "fps") = "10"
    /\ scanners[cleanup].config["fps"] = JsUndefined
    /\ Prop(props, "qrCodeSuccessCallback") # scanners[cleanup].success
    /\ Count("effect", mounts) = 1

\* The names of the passthrough props the host passes.
PassthroughNames == (UNION {DOMAIN p : p \in PropsSet}) \ NamedProps

\* C6: every passthrough prop of the last render is an attribute of the
\* container with the same value, none of the seven named props is an
\* attribute, and no passthrough prop is a field of a scanner's config.
C6_PassthroughOnlyOnContainer ==
    /\ phase # "unmounted" =>
         /\ \A k \in (DOMAIN props) \ NamedProps : k \in DOMAIN dom /\ dom[k] = props[k]
         /\ (DOMAIN dom) \cap NamedProps = {}
    /\ \A h \in 1..Len(scanners) : (DOMAIN scanners[h].config) \cap PassthroughNames = {}

C6_Witness ==
    /\ phase = "active"
    /\ "className" \in DOMAIN props /\ "verbose" \in DOMAIN props
    /\ dom["className"] = "c"
    /\ scanners[cleanup].verbose

\* C7: the scanner of the current mount was constructed with verbose = true
\* exactly when the verbose prop is the boolean true.
C7_VerboseOnlyLiteralTrue ==
    \A h \in ScannersOf(mounts) :
        scanners[h].verbose = (Prop(closure, "verbose") = "true")

C7_Witness ==
    \E h \in ScannersOf(mounts) :
        /\ ~scanners[h].verbose
        /\ Prop(closure, "verbose") \in {"'true'", "1"}

\* C8: once a mount is over, clear() has been requested on every scanner
\* constructed during it, also when render threw.
C8_EveryHandleReleased ==
    \A h \in 1..Len(scanners) : Ended(scanners[h].m) => scanners[h].clear # "idle"

\* C9: after a successful activation the scanner is bound to the fixed
\* region identifier, its config has exactly the fields fps, qrbox,
\* aspectRatio and disableFlip with the values of the props (undefined when
\* absent), it was started with the two callback props, and every render
\* follows the construction of its scanner.
C9_ConstructedAndStartedFromProps ==
    /\ phase = "active" =>
         LET s == scanners[cleanup] IN
         /\ s.elementId = "html5qr-code-full-region"
         /\ DOMAIN s.config = {"fps", "qrbox", "aspectRatio", "disableFlip"}
         /\ \A k \in DOMAIN s.config :
                s.config[k] = (IF k \in DOMAIN closure THEN closure[k] ELSE "undefined")
         /\ s.rendered
         /\ s.success = closure["qrCodeSuccessCallback"]
         /\ s.error = (IF "qrCodeErrorCallback" \in DOMAIN closure
                       THEN closure["qrCodeErrorCallback"] ELSE "undefined")
    /\ \A m \in 1..mounts : \A j \in At("render", m) : \E i \in At("new", m) : i < j

C9_Witness ==
    /\ phase = "active"
    /\ closure = With(With(BaseProps, "fps", "10"), "qrbox", "250")
    /\ scanners[cleanup].config =
         [fps |-> "10", qrbox |-> "250", aspectRatio |-> "undefined", disableFlip |-> "undefined"]
    /\ ~scanners[cleanup].verbose
    /\ scanners[cleanup].success = "cb1"
    /\ scanners[cleanup].error = "undefined"

\* The console entries about the scanner of mount m.
Logged(m) == {i \in 1..Len(console) : console[i].m = m}

\* C10: the step that requests clear() ends with the component unmounted
\* and the promise still pending, and the catch handler has logged exactly
\* when the promise was rejected.
C10_ReleaseNotAwaited ==
    /\ [](\A h \in 1..Len(scanners) :
            Cardinality(Logged(scanners[h].m)) =
                (IF scanners[h].clear = "rejected" THEN 1 ELSE 0))
    /\ [][\A h \in 1..Len(scanners) :
            (scanners[h].clear = "idle" /\ scanners'[h].clear # "idle")
              => (scanners'[h].clear = "pending" /\ phase' = "unmounted")]_vars

C10_Witness ==
    /\ phase = "unmounted"
    /\ \E h \in 1..Len(scanners) : scanners[h].clear = "pending" /\ scanners[h].m = mounts
    /\ console = <<>>

\* The mounts whose effect threw.
FailedMounts == {uncaught[i].m : i \in {j \in 1..Len(uncaught) : uncaught[j].from = "effect"}}

\* C11: nothing is retried.  A mount whose clear() was rejected has had one
\* clear() request and one scanner; a mount whose effect threw has had one
\* run of the effect and no started scanner; no mount has a second run of
\* the effect, a second scanner or a second clear().
C11_NoRetry ==
    /\ \A m \in 1..mounts :
         Count("effect", m) <= 1 /\ Count("new", m) <= 1 /\ Count("clear", m) <= 1
    /\ \A h \in 1..Len(scanners) :
         scanners[h].clear = "rejected" =>
            /\ Count("clear", scanners[h].m) = 1
            /\ ScannersOf(scanners[h].m) = {h}
            /\ Cardinality(Logged(scanners[h].m)) = 1
    /\ \A m \in FailedMounts :
         /\ Count("effect", m) = 1
         /\ Count("render", m) = 0
         /\ m = mounts => phase \in {"failed", "unmounted"}

C11_Witness ==
    /\ mounts = 2
    /\ phase = "unmounted"
    /\ \E h \in ScannersOf(1) : scanners[h].clear = "rejected"
    /\ 2 \in FailedMounts

\* The scanners bound to the region whose release has not completed: the
\* scanner of the mount in progress, and the scanners whose clear() is
\* pending.  A scanner that is never cleared (C8) is not counted, so that
\* the statement does not rest on that leak.
Unreleased ==
    {h \in 1..Len(scanners) :
        /\ scanners[h].elementId = qrcodeRegionId
        /\ \/ scanners[h].clear = "pending"
           \/ (scanners[h].clear = "idle" /\ ~Ended(scanners[h].m))}

\* C12: at any time at most one scanner whose release has not completed is
\* bound to the fixed region identifier.
C12_AtMostOneUnreleasedHandle == Cardinality(Unreleased) <= 1

\* C13: clear() is requested only on a scanner that was started, after its
\* render; a mount whose effect threw (the missing success callback
\* included) has no clear() request, and its unmount throws nothing.
C13_ReleaseOnlyAfterActivation ==
    /\ \A h \in 1..Len(scanners) : scanners[h].clear # "idle" => scanners[h].rendered
    /\ \A m \in 1..mounts : \A j \in At("clear", m) : \E i \in At("render", m) : i < j
    /\ \A m \in FailedMounts :
         /\ Count("clear", m) = 0
         /\ Cardinality({i \in 1..Len(uncaught) : uncaught[i].m = m}) = 1
    /\ \A i \in 1..Len(uncaught) : uncaught[i].from # "cleanup"

C13_Witness ==
    /\ mounts = 2
    /\ phase = "unmounted"
    /\ "qrCodeSuccessCallback" \notin DOMAIN closure
    /\ uncaught = <<[m |-> 2, from |-> "effect", error |-> RequiredMessage]>>
    /\ Count("clear", 1) = 1
    /\ Count("clear", 2) = 0

\* The effect of mount m threw the configuration error.
ConfigurationError(m) ==
    \E i \in 1..Len(uncaught) :
        uncaught[i] = [m |-> m, from |-> "effect", error |-> RequiredMessage]

\* C14: once the effect of a mount has run, it has thrown the configuration
\* error exactly when qrCodeSuccessCallback is absent, undefined, null,
\* false, 0 or the empty string; every other value, function or not, was
\* handed unchanged to render whenever render was called.
C14_ExactlyTruthyAccepted ==
    (mounts >= 1 /\ phase # "rendered") =>
        /\ ConfigurationError(mounts) <=>
              \/ "qrCodeSuccessCallback" \notin DOMAIN closure
              \/ closure["qrCodeSuccessCallback"] \in {"undefined", "null", "false", "0", "''"}
        /\ \A h \in ScannersOf(mounts) :
              scanners[h].rendered =>
                  /\ ~ConfigurationError(mounts)
                  /\ scanners[h].success = closure["qrCodeSuccessCallback"]

C14_Witness ==
    /\ phase = "active"
    /\ closure["qrCodeSuccessCallback"] = "1"
    /\ scanners[cleanup].rendered
    /\ scanners[cleanup].success = "1"
    /\ uncaught = <<>>

====
